---- MODULE Spec2Model ----
(***************************************************************************)
(* Walk-forward backtesting engine of POO-crypto: Backtester.run with its  *)
(* two phases calculate_weights and calculate_performance, and the         *)
(* Strategy.get_position implementations it drives.                        *)
(*                                                                         *)
(* Dates are day numbers.  A float is an exact rational <<n, d>> with      *)
(* d > 0 in lowest terms, or NaN == <<0, 0>>; rounding of IEEE doubles is  *)
(* not modelled.  A pandas Series is a function from the labels of its     *)
(* index to floats; a DataFrame is a record of its row index (ascending    *)
(* sequence of days), its column set and its cell values.                  *)
(***************************************************************************)
EXTENDS Integers, Sequences, FiniteSets, TLC

(***************************************************************************)
(* Bounds of the model.                                                    *)
(***************************************************************************)
MaxDay == 3
MaxList == 1
MaxExp == 1
MaxFreq == 2
MaxWindow == 3
MaxRand == 1
MaxGap == 1
MaxRuns == 3
MaxRows == 3

(***************************************************************************)
(* Defaults of Backtester.run.                                             *)
(***************************************************************************)
DefaultFreq == 30
DefaultWindow == 365
DefaultAum == 100
DefaultTransactionCost == 0

(***************************************************************************)
(* Floats as exact rationals.                                              *)
(***************************************************************************)
NaN == <<0, 0>>

IsNaN(x) == x[2] = 0

Abs(n) == IF n < 0 THEN 0 - n ELSE n

RECURSIVE GCD(_, _)
GCD(m, n) == IF n = 0 THEN m ELSE GCD(n, m % n)

Norm(n, d) ==
    IF d = 0 THEN NaN
    ELSE LET g == GCD(Abs(n), Abs(d))
             s == IF d < 0 THEN 0 - 1 ELSE 1
         IN  <<(s * n) \div g, (s * d) \div g>>

F(n) == <<n, 1>>

Zero == F(0)

One == F(1)

FAdd(x, y) ==
    IF IsNaN(x) \/ IsNaN(y) THEN NaN
    ELSE LET g == GCD(x[2], y[2])
         IN  Norm(x[1] * (y[2] \div g) + y[1] * (x[2] \div g),
                  x[2] * (y[2] \div g))

FNeg(x) == IF IsNaN(x) THEN NaN ELSE <<0 - x[1], x[2]>>

FSub(x, y) == FAdd(x, FNeg(y))

FMul(x, y) ==
    IF IsNaN(x) \/ IsNaN(y) THEN NaN
    ELSE LET g == GCD(Abs(x[1]), y[2])
             k == GCD(Abs(y[1]), x[2])
         IN  Norm((x[1] \div g) * (y[1] \div k),
                  (x[2] \div k) * (y[2] \div g))

\* x / y of numpy floats: 0/0 is nan.  A nonzero x over 0 (inf) does not
\* occur: every divisor in the program is a price, a count or a sum of
\* absolute values.
FDiv(x, y) ==
    IF IsNaN(x) \/ IsNaN(y) \/ y[1] = 0 THEN NaN
    ELSE Norm(x[1] * y[2], x[2] * y[1])

FAbs(x) == IF IsNaN(x) THEN NaN ELSE <<Abs(x[1]), x[2]>>

\* x < y; any comparison with NaN is False.
FLt(x, y) == ~IsNaN(x) /\ ~IsNaN(y) /\ x[1] * y[2] < y[1] * x[2]

FLe(x, y) == ~IsNaN(x) /\ ~IsNaN(y) /\ x[1] * y[2] <= y[1] * x[2]

(***************************************************************************)
(* Helpers on sets and sequences of days.                                  *)
(***************************************************************************)
MinOf(S) == CHOOSE m \in S : \A x \in S : m <= x

MaxOf(S) == CHOOSE m \in S : \A x \in S : x <= m

RECURSIVE Ascending(_)
Ascending(S) == IF S = {} THEN <<>> ELSE <<MinOf(S)>> \o Ascending(S \ {MinOf(S)})

Reverse(s) == [i \in 1..Len(s) |-> s[Len(s) + 1 - i]]

Range(s) == {s[i] : i \in 1..Len(s)}

\* The assets of the price matrix, in column order.
AssetOrder == <<"a", "b">>

Assets == Range(AssetOrder)

\* The column order of the frames given to a Strategy on its own.
ColumnOrder == AssetOrder \o <<"c">>

Columns == Range(ColumnOrder)

ColPos(a) == CHOOSE i \in 1..Len(ColumnOrder) : ColumnOrder[i] = a

(***************************************************************************)
(* The price matrix handed to Backtester.__init__: one row per day of      *)
(* 0..MaxDay, one column per asset.  An asset has no price (NaN) before    *)
(* its listing day, or never; once listed its price alternates between 1   *)
(* and the level 2^(h+1) (or stays at 1), asset "a" starting low and asset *)
(* "b" starting high.  A flat series of asset "b" may also miss the price  *)
(* of one day after its listing.                                           *)
(***************************************************************************)
Days == 0..MaxDay

RECURSIVE Level(_)
Level(h) == IF h = 0 THEN 1 ELSE IF h = 1 THEN 4 ELSE 2 * Level(h - 1)

NeverListed == MaxDay + 1

NoGap == 0 - 1

AssetSeries(listed, phase, h, gap) ==
    [t \in Days |->
        IF t < listed \/ t = gap THEN NaN
        ELSE IF (t + phase) % 2 = 0 THEN F(1) ELSE F(Level(h))]

SeriesFamily(phase) ==
    {AssetSeries(l, phase, h, NoGap) : l \in (0..MaxList) \cup {NeverListed},
                                       h \in {0, MaxExp}}

\* An asset listed from day 0 whose price doubles across its gap.
StepSeries(gap) ==
    [t \in Days |-> IF t = gap THEN NaN ELSE IF t < gap THEN F(1) ELSE F(2)]

GapFamily ==
    {AssetSeries(0, 1, 0, g) : g \in 1..MaxGap}
      \cup {StepSeries(g) : g \in 1..MaxGap}

PriceTables ==
    {[t \in Days |-> [x \in Assets |-> IF x = "a" THEN sa[t] ELSE sb[t]]] :
        sa \in SeriesFamily(0), sb \in SeriesFamily(1) \cup GapFamily}

\* The spec's compounding scenario: a single asset with the simple returns
\* 0.1, -0.05 and 0.02, then flat; asset "b" has no price at all.
ScenarioPrice(t) ==
    IF t = 0 THEN 10000 ELSE IF t = 1 THEN 11000
    ELSE IF t = 2 THEN 10450 ELSE 10659

ScenarioTable ==
    [t \in Days |-> [x \in Assets |->
        IF x = "a" THEN F(ScenarioPrice(t)) ELSE NaN]]

(***************************************************************************)
(* pandas containers.                                                      *)
(***************************************************************************)
EmptySeries == <<>>

EmptyFrame == [index |-> <<>>, columns |-> {}, v |-> <<>>]

\* pd.Series(value, index=labels)
ConstSeries(labels, value) == [x \in labels |-> value]

\* Series.fillna(0.0)
FillNa(s) == [x \in DOMAIN s |-> IF IsNaN(s[x]) THEN Zero ELSE s[x]]

RECURSIVE SumOver(_, _)
\* sum of s[x] for x in S, NaN propagating (Python's built-in sum).
SumOver(s, S) ==
    IF S = {} THEN Zero
    ELSE LET x == CHOOSE y \in S : TRUE
         IN  FAdd(s[x], SumOver(s, S \ {x}))

\* Series.sum(): NaN entries are skipped.
SeriesSum(s) == SumOver(s, {x \in DOMAIN s : ~IsNaN(s[x])})

\* Series.count(): number of non-NaN entries.
SeriesCount(s) == Cardinality({x \in DOMAIN s : ~IsNaN(s[x])})

VARIABLES
    data,                    \* self.data
    attrs,                   \* names of the run attributes self has
    start_date, end_date,    \* self.start_date, self.end_date
    freq, window,            \* self.freq, self.window
    aum, transaction_cost,   \* self.aum, self.transaction_cost
    weights,                 \* self.weights
    performance,             \* self.performance: <<date, value>> pairs
    total_transaction_costs, \* self.total_transaction_costs
    pc,                      \* position inside run
    call,                    \* arguments of the current or last call of run
    exc,                     \* exception that left run, "" if none
    result,                  \* the Result returned by run
    prices_index,            \* calculate_weights: prices.index
    rebalancing_dates,       \* calculate_weights: rebalancing_dates
    current_date,            \* calculate_weights: current_date
    last_weights,            \* calculate_weights: last_weights
    weights_list,            \* calculate_weights: weights_list
    dates_list,              \* calculate_weights: dates_list
    gp,                      \* the last get_position call: arguments, outcome
    balance,                 \* calculate_performance: balance
    previous_weights,        \* calculate_performance: previous_weights
    portfolio_values,        \* calculate_performance: portfolio_values
    dates,                   \* calculate_performance: dates
    date_range,              \* calculate_performance: dates still to simulate
    event,                   \* calculate_performance: the last simulated step
    completed                \* the calls of run that have ended, in order

selfVars == <<attrs, start_date, end_date, freq, window, aum, transaction_cost,
              weights, performance, total_transaction_costs>>

weightLocals == <<prices_index, rebalancing_dates, current_date, last_weights,
                  weights_list, dates_list, gp>>

perfLocals == <<balance, previous_weights, portfolio_values, dates, date_range,
                event>>

vars == <<data, selfVars, pc, call, exc, result, weightLocals, perfLocals,
          completed>>

NoCall ==
    [strategy |-> "None", start_given |-> FALSE, start_date |-> 0,
     end_given |-> FALSE, end_date |-> 0, freq |-> DefaultFreq,
     window |-> DefaultWindow, aum |-> DefaultAum,
     transaction_cost |-> DefaultTransactionCost]

NoGp == [strategy |-> "None", historical_data |-> EmptyFrame,
         current_position |-> EmptySeries, exc |-> "", value |-> EmptySeries]

NoEvent == [date |-> 0 - 1, rebalance |-> FALSE, balance_before |-> Zero,
            cost |-> Zero, weights |-> EmptySeries, prev |-> EmptySeries,
            portfolio_return |-> Zero]

NoResult == [name |-> "None"]

InitRest ==
    /\ attrs = {}
    /\ start_date = 0 /\ end_date = 0 /\ freq = 0 /\ window = 0
    /\ aum = 0 /\ transaction_cost = 0
    /\ weights = EmptyFrame
    /\ performance = <<>>
    /\ total_transaction_costs = Zero
    /\ pc = "idle"
    /\ call = NoCall
    /\ exc = ""
    /\ result = NoResult
    /\ prices_index = <<>>
    /\ rebalancing_dates = <<>>
    /\ current_date = 0
    /\ last_weights = EmptySeries
    /\ weights_list = <<>>
    /\ dates_list = <<>>
    /\ gp = NoGp
    /\ balance = Zero
    /\ previous_weights = EmptySeries
    /\ portfolio_values = <<>>
    /\ dates = <<>>
    /\ date_range = <<>>
    /\ event = NoEvent
    /\ completed = <<>>

\* Backtester.__init__
Init ==
    /\ data \in PriceTables \cup {ScenarioTable}
    /\ InitRest

(***************************************************************************)
(* Strategy.get_position.  A call either returns a Series or raises; its   *)
(* outcome is [exc, value].  historical_data is a frame                    *)
(* [index, columns, v] without NaN cells, as Backtester passes it.         *)
(***************************************************************************)
Return(s) == [exc |-> "", value |-> s]

Raise(e) == [exc |-> e, value |-> EmptySeries]

\* len(historical_data.pct_change().dropna()): the first row of pct_change
\* is all NaN and dropped; with no column, no row has a NaN to drop.
LenReturns(h) ==
    IF h.columns = {} THEN Len(h.index)
    ELSE IF Len(h.index) = 0 THEN 0 ELSE Len(h.index) - 1

\* Variant: the observation threshold of line 72 lowered from 2 to 1.
OptimizationGetPositionOneObservation(h, current_position) ==
    IF LenReturns(h) < 1 THEN Return(current_position)
    ELSE IF h.columns = {} THEN Return(current_position)
    ELSE Raise("TypeError")

\* OptimizationStrategy.get_position.  The call
\* self.create_portfolio_constraints(returns) passes an argument the method
\* does not take, so nothing after line 84 is reached.
OptimizationGetPosition(h, current_position) ==
    IF LenReturns(h) < 2 THEN Return(current_position)
    ELSE IF h.columns = {} THEN Return(current_position)
    ELSE Raise("TypeError")

\* EqualWeightStrategy.get_position
EqualWeightGetPosition(h, current_position) ==
    LET num_assets == Cardinality(h.columns)
    IN  IF num_assets = 0 THEN Raise("ZeroDivisionError")
        ELSE Return(ConstSeries(h.columns, Norm(1, num_assets)))

\* RandomStrategy.get_position for one draw of np.random.rand, the draws
\* scaled to 0..MaxRand.
RandomWeights(h, draw) ==
    LET total == SumOver([x \in h.columns |-> F(draw[x])], h.columns)
    IN  [x \in h.columns |-> FDiv(F(draw[x]), total)]

RandomGetPosition(h, current_position) ==
    {Return(RandomWeights(h, draw)) : draw \in [h.columns -> 0..MaxRand]}

\* Series.dropna()
DropNa(s) == [x \in {y \in DOMAIN s : ~IsNaN(s[y])} |-> s[x]]

\* Series.rank(ascending=False, method='first'): the largest value gets
\* rank 1, equal values are ranked in the order of their labels.
RankDescending(s) ==
    [x \in DOMAIN s |->
        F(1 + Cardinality({y \in DOMAIN s : FLt(s[x], s[y])})
            + Cardinality({y \in DOMAIN s : s[y] = s[x] /\ ColPos(y) < ColPos(x)}))]

\* Variant: the ratios ranked in ascending order, the smallest first.
ValueRankAssetsAscending(h) ==
    LET coef_asset == [x \in h.columns |->
                          FDiv(h.v[h.index[Len(h.index)]][x],
                               h.v[h.index[1]][x])]
    IN  [x \in h.columns |->
            F(1 + Cardinality({y \in h.columns :
                                 FLt(coef_asset[y], coef_asset[x])})
                + Cardinality({y \in h.columns :
                                 /\ coef_asset[y] = coef_asset[x]
                                 /\ ColPos(y) < ColPos(x)}))]

\* ValueStrategy.rank_assets; historical_data has at least one row.
ValueRankAssets(h) ==
    LET last_prices == h.v[h.index[Len(h.index)]]
        prices_one_year_ago == h.v[h.index[1]]
        coef_asset == [x \in h.columns |->
                          FDiv(last_prices[x], prices_one_year_ago[x])]
    IN  RankDescending(DropNa(coef_asset))

\* RankedStrategy.get_position, lines 163-166: ranked_assets - average.
CenteredWeights(ranked_assets) ==
    LET num_assets == SeriesCount(ranked_assets)
        sum_of_ranks == SeriesSum(ranked_assets)
        average == FDiv(sum_of_ranks, F(num_assets))
    IN  [x \in DOMAIN ranked_assets |-> FSub(ranked_assets[x], average)]

\* Variant: the ranks divided by their sum, weights that sum to 1.
RankedWeightsShareOfRanks(ranked_assets) ==
    [x \in DOMAIN ranked_assets |->
        FDiv(ranked_assets[x], SeriesSum(ranked_assets))]

\* Variant: the centered weights divided by the number of assets.
RankedWeightsByCount(ranked_assets) ==
    LET w == CenteredWeights(ranked_assets)
    IN  [x \in DOMAIN w |-> FDiv(w[x], F(SeriesCount(ranked_assets)))]

\* RankedStrategy.get_position, lines 163-172, from the ranking; the
\* built-in sum over abs(weights) does not skip NaN.
RankedWeights(ranked_assets) ==
    LET w == CenteredWeights(ranked_assets)
        total_abs_ranks == SumOver([x \in DOMAIN w |-> FAbs(w[x])], DOMAIN w)
    IN  [x \in DOMAIN w |-> FDiv(w[x], total_abs_ranks)]

\* RankedStrategy.get_position of a ValueStrategy; iloc[-1] of a frame
\* without rows raises IndexError.
ValueGetPosition(h, current_position) ==
    IF Len(h.index) = 0 THEN Raise("IndexError")
    ELSE Return(RankedWeights(ValueRankAssets(h)))

\* Series.rank(ascending=True, method='first')
RankAscending(s) ==
    [x \in DOMAIN s |->
        F(1 + Cardinality({y \in DOMAIN s : FLt(s[y], s[x])})
            + Cardinality({y \in DOMAIN s : s[y] = s[x] /\ ColPos(y) < ColPos(x)}))]

\* The k-th row of historical_data.pct_change().dropna(), for a frame
\* without NaN cells: the return from row k to row k + 1.
PctChange(h, x, k) ==
    FSub(FDiv(h.v[h.index[k + 1]][x], h.v[h.index[k]][x]), One)

\* (1 + x).prod() over the returns lo..hi of asset x
RECURSIVE Compound(_, _, _, _)

Compound(h, x, lo, hi) ==
    IF lo > hi THEN One
    ELSE FMul(Compound(h, x, lo, hi - 1), FAdd(One, PctChange(h, x, hi)))

\* returns.std() of asset x, represented by its square, the sample variance
\* (ddof = 1), which orders the assets as the standard deviation does; NaN
\* with fewer than 2 returns.
Variance(h, x) ==
    LET n == LenReturns(h)
        r == [k \in 1..n |-> PctChange(h, x, k)]
        mean == FDiv(SumOver(r, 1..n), F(n))
        sq == [k \in 1..n |-> FMul(FSub(r[k], mean), FSub(r[k], mean))]
    IN  IF n < 2 THEN NaN ELSE FDiv(SumOver(sq, 1..n), F(n - 1))

\* MinVolStrategy.rank_assets: the result of volatility.dropna() is
\* discarded, and rank leaves a NaN value without a rank.
MinVolRankAssets(h) ==
    LET volatility == [x \in h.columns |-> Variance(h, x)]
        ranked == RankDescending(DropNa(volatility))
    IN  [x \in h.columns |->
            IF IsNaN(volatility[x]) THEN NaN ELSE ranked[x]]

MinVolGetPosition(h, current_position) ==
    Return(RankedWeights(MinVolRankAssets(h)))

\* MomentumStrategy.rank_assets for a frame with at least one return: the
\* possible rankings.  With one return the rolling window has length 0, and
\* whether apply then yields 0 or NaN depends on the pandas version: both
\* outcomes are kept.
MomentumRankAssets(h) ==
    LET len_window == LenReturns(h)
        delta == (len_window + 11) \div 12
        width == len_window - delta
        last == len_window - delta + 1
        latest_returns ==
            [x \in h.columns |->
                IF last < width THEN NaN
                ELSE FSub(Compound(h, x, last - width + 1, last), One)]
    IN  IF width = 0
          THEN {RankAscending(ConstSeries(h.columns, Zero)), EmptySeries}
          ELSE {RankAscending(DropNa(latest_returns))}

\* RankedStrategy.get_position of a MomentumStrategy; iloc[-delta] with
\* delta = 0 on a frame without rows raises IndexError.
MomentumGetPosition(h, current_position) ==
    IF LenReturns(h) = 0 THEN {Raise("IndexError")}
    ELSE {Return(RankedWeights(ranks)) : ranks \in MomentumRankAssets(h)}

OptimizationStrategies ==
    {"MinVarianceStrategy", "MaxSharpeStrategy", "EqualRiskContributionStrategy"}

\* The possible outcomes of strategy.get_position(h, current_position).
GetPosition(strategy, h, current_position) ==
    CASE strategy \in OptimizationStrategies ->
             {OptimizationGetPosition(h, current_position)}
      [] strategy = "EqualWeightStrategy" ->
             {EqualWeightGetPosition(h, current_position)}
      [] strategy = "RandomStrategy" ->
             RandomGetPosition(h, current_position)
      [] strategy = "ValueStrategy" ->
             {ValueGetPosition(h, current_position)}
      [] strategy = "MinVolStrategy" ->
             {MinVolGetPosition(h, current_position)}
      [] strategy = "MomentumStrategy" ->
             MomentumGetPosition(h, current_position)

(***************************************************************************)
(* Label slices of self.data.                                              *)
(***************************************************************************)
\* self.data[lo:hi].index: rows whose label lies in [lo, hi].
RowsBetween(lo, hi) == {t \in DOMAIN data : lo <= t /\ t <= hi}

\* Variant: the columns are filtered once, over all of prices.
FilteredWindowGlobally(rows) ==
    LET cols == {x \in Assets :
                    \A t \in Range(prices_index) : ~IsNaN(data[t][x])}
    IN  [index |-> Ascending(rows), columns |-> cols,
         v |-> [t \in rows |-> [x \in cols |-> data[t][x]]]]

\* prices[train_start:train_end].dropna(axis=1): columns with a NaN in one
\* of the rows are dropped.
FilteredWindow(rows) ==
    LET cols == {x \in Assets : \A t \in rows : ~IsNaN(data[t][x])}
    IN  [index |-> Ascending(rows), columns |-> cols,
         v |-> [t \in rows |-> [x \in cols |-> data[t][x]]]]

(***************************************************************************)
(* Backtester.run                                                          *)
(***************************************************************************)
Strategies == {"MinVarianceStrategy", "EqualWeightStrategy", "ValueStrategy"}

\* run(strategy=s) and run(): every other parameter left to its default.
DefaultCalls == {[NoCall EXCEPT !.strategy = s] : s \in Strategies \cup {"None"}}

\* run(start_date, strategy=s): the end date left out.
StartOnlyCalls ==
    {[NoCall EXCEPT !.strategy = s, !.start_given = TRUE, !.start_date = d] :
        s \in Strategies, d \in {0}}

\* Transaction cost rates, in percent.
CostRates == {0, 50}

\* run(start_date, end_date, freq, window, aum, transaction_cost, strategy):
\* every date range without costs, and the range from the first to the last
\* day with costs.
FullCalls ==
    {c \in [strategy : Strategies, start_given : {TRUE},
            start_date : 0..MaxList, end_given : {TRUE},
            end_date : {0, MaxDay - 1, MaxDay}, freq : 1..MaxFreq,
            window : 0..MaxWindow, aum : {DefaultAum},
            transaction_cost : CostRates] :
        \/ c.transaction_cost = 0
        \/ c.start_date = 0 /\ c.end_date = MaxDay}

\* The spec's cost scenario: a rate of 1 percent and one rebalance every
\* MaxFreq days.
ScenarioCalls ==
    [strategy : {"EqualWeightStrategy"}, start_given : {TRUE},
     start_date : {0}, end_given : {TRUE}, end_date : {MaxDay},
     freq : {MaxFreq}, window : {1}, aum : {DefaultAum},
     transaction_cost : {1}]

Calls == DefaultCalls \cup StartOnlyCalls \cup FullCalls \cup ScenarioCalls

\* Leaving run by an exception: nothing is returned.
Raised(e) ==
    /\ pc' = "raised"
    /\ exc' = e
    /\ result' = NoResult
    /\ completed' = Append(completed, [call |-> call', exc |-> e,
                                        result |-> NoResult])

\* Variant: the strategy check placed after the assignments of lines 56-62.
RunRejectedAfterAssign(args) ==
    /\ Raised("ValueError")
    /\ start_date' = args.start_date
    /\ end_date' = args.end_date
    /\ freq' = args.freq
    /\ window' = args.window
    /\ aum' = args.aum
    /\ transaction_cost' = args.transaction_cost
    /\ UNCHANGED <<attrs, prices_index, rebalancing_dates, current_date,
                   weights_list, dates_list>>

\* Lines 47-48: no strategy.
RunRejected(args) ==
    /\ Raised("ValueError")
    /\ UNCHANGED <<attrs, start_date, end_date, freq, window, aum,
                   transaction_cost, prices_index, rebalancing_dates,
                   current_date, weights_list, dates_list>>

\* Lines 47-66 of run, and calculate_weights up to its while loop (lines
\* 82-97).
Run(args) ==
    /\ \/ pc = "idle"
       \/ pc \in {"done", "raised"} /\ args = NoCall /\ call # NoCall
    /\ Len(completed) < MaxRuns
    /\ call' = args
    /\ UNCHANGED <<data, weights, performance, total_transaction_costs,
                   last_weights, gp, perfLocals>>
    /\ IF args.strategy = "None"
         THEN RunRejected(args)
       ELSE IF ~args.start_given \/ ~args.end_given
         THEN \* self.returns is never assigned
              /\ Raised("AttributeError")
              /\ UNCHANGED <<attrs, start_date, end_date, freq, window, aum,
                             transaction_cost, prices_index,
                             rebalancing_dates, current_date, weights_list,
                             dates_list>>
       ELSE /\ start_date' = args.start_date
            /\ end_date' = args.end_date
            /\ freq' = args.freq
            /\ window' = args.window
            /\ aum' = args.aum
            /\ transaction_cost' = args.transaction_cost
            /\ attrs' = attrs \cup {"start_date", "end_date", "freq", "window",
                                    "aum", "transaction_cost"}
            /\ weights_list' = <<>>
            /\ dates_list' = <<>>
            /\ LET prices ==
                       Ascending(RowsBetween(args.start_date - args.window,
                                             args.end_date))
               IN  /\ prices_index' = prices
                   /\ rebalancing_dates' = <<>>
                   /\ IF prices = <<>>
                        THEN \* prices.index[-1]
                             /\ Raised("IndexError")
                             /\ UNCHANGED current_date
                        ELSE /\ current_date' = prices[Len(prices)]
                             /\ pc' = "schedule"
                             /\ UNCHANGED <<exc, result, completed>>

(***************************************************************************)
(* Backtester.calculate_weights                                            *)
(***************************************************************************)
\* Variant: a strict comparison in the condition of the while loop.
WindowAvailableStrictly == current_date > prices_index[1] + window

\* The condition of the while loop, line 98.
WindowAvailable == current_date >= prices_index[1] + window

\* Variant: the loop steps back one day at a time, whatever freq.
ScheduleStepByOneDay ==
    /\ pc = "schedule"
    /\ WindowAvailable
    /\ rebalancing_dates' = Append(rebalancing_dates, current_date)
    /\ current_date' = current_date - 1
    /\ UNCHANGED <<data, selfVars, pc, call, exc, result, prices_index,
                   last_weights, weights_list, dates_list, gp, perfLocals,
                   completed>>

\* One iteration of the while loop, lines 98-100.
ScheduleStep ==
    /\ pc = "schedule"
    /\ WindowAvailable
    /\ rebalancing_dates' = Append(rebalancing_dates, current_date)
    /\ current_date' = current_date - freq
    /\ UNCHANGED <<data, selfVars, pc, call, exc, result, prices_index,
                   last_weights, weights_list, dates_list, gp, perfLocals,
                   completed>>

\* Variant: last_weights kept from the previous call of run, as if it were
\* an attribute set once in __init__.
ScheduleDoneKeepsLastWeights ==
    /\ pc = "schedule"
    /\ ~WindowAvailable
    /\ rebalancing_dates' = Reverse(rebalancing_dates)
    /\ last_weights' = IF last_weights = EmptySeries
                         THEN ConstSeries(Assets, Zero) ELSE last_weights
    /\ pc' = "weights"
    /\ UNCHANGED <<data, selfVars, call, exc, result, prices_index,
                   current_date, weights_list, dates_list, gp, perfLocals,
                   completed>>

\* Leaving the while loop, lines 103-106.
ScheduleDone ==
    /\ pc = "schedule"
    /\ ~WindowAvailable
    /\ rebalancing_dates' = Reverse(rebalancing_dates)
    /\ last_weights' = ConstSeries(Assets, Zero)
    /\ pc' = "weights"
    /\ UNCHANGED <<data, selfVars, call, exc, result, prices_index,
                   current_date, weights_list, dates_list, gp, perfLocals,
                   completed>>

\* Variant: train_end = current_date, the window runs through the date.
TrainingWindowThroughDate(date) ==
    FilteredWindow({t \in Range(prices_index) :
                        date - window <= t /\ t <= date})

\* prices[train_start:train_end].dropna(axis=1), lines 110-117.
TrainingWindow(date) ==
    FilteredWindow({t \in Range(prices_index) :
                        date - window <= t /\ t <= date - 1})

\* Variant: every call is given the all-zero vector.
WeightStepFromZero ==
    /\ pc = "weights"
    /\ Len(dates_list) < Len(rebalancing_dates)
    /\ UNCHANGED <<data, selfVars, call, prices_index, rebalancing_dates,
                   perfLocals>>
    /\ LET date == rebalancing_dates[Len(dates_list) + 1]
           price_window_filtered == TrainingWindow(date)
       IN  /\ current_date' = date
           /\ \E out \in GetPosition(call.strategy, price_window_filtered,
                                     ConstSeries(Assets, Zero)) :
                /\ gp' = [strategy |-> call.strategy,
                          historical_data |-> price_window_filtered,
                          current_position |-> ConstSeries(Assets, Zero),
                          exc |-> out.exc, value |-> out.value]
                /\ IF out.exc # ""
                     THEN /\ Raised(out.exc)
                          /\ UNCHANGED <<last_weights, weights_list,
                                         dates_list>>
                     ELSE /\ last_weights' = out.value
                          /\ weights_list' = Append(weights_list, out.value)
                          /\ dates_list' = Append(dates_list, date)
                          /\ UNCHANGED <<pc, exc, result, completed>>

\* One iteration of the for loop, lines 108-126.
WeightStep ==
    /\ pc = "weights"
    /\ Len(dates_list) < Len(rebalancing_dates)
    /\ UNCHANGED <<data, selfVars, call, prices_index, rebalancing_dates,
                   perfLocals>>
    /\ LET date == rebalancing_dates[Len(dates_list) + 1]
           price_window_filtered == TrainingWindow(date)
       IN  /\ current_date' = date
           /\ \E out \in GetPosition(call.strategy, price_window_filtered,
                                     last_weights) :
                /\ gp' = [strategy |-> call.strategy,
                          historical_data |-> price_window_filtered,
                          current_position |-> last_weights,
                          exc |-> out.exc, value |-> out.value]
                /\ IF out.exc # ""
                     THEN /\ Raised(out.exc)
                          /\ UNCHANGED <<last_weights, weights_list,
                                         dates_list>>
                     ELSE /\ last_weights' = out.value
                          /\ weights_list' = Append(weights_list, out.value)
                          /\ dates_list' = Append(dates_list, date)
                          /\ UNCHANGED <<pc, exc, result, completed>>

\* Variant: the frame without fillna(0.0).
WeightsFrameUnfilled(rows, index) ==
    LET cols == UNION {DOMAIN rows[i] : i \in 1..Len(rows)}
    IN  [index |-> index, columns |-> cols,
         v |-> [d \in Range(index) |->
                  LET w == rows[CHOOSE i \in 1..Len(index) : index[i] = d]
                  IN  [x \in cols |-> IF x \in DOMAIN w THEN w[x] ELSE NaN]]]

\* pd.DataFrame(weights_list, index=dates_list).fillna(0.0): the columns
\* are the union of the rows' labels, a label a row lacks is NaN.
WeightsFrame(rows, index) ==
    LET cols == UNION {DOMAIN rows[i] : i \in 1..Len(rows)}
    IN  [index |-> index, columns |-> cols,
         v |-> [d \in Range(index) |->
                  LET w == rows[CHOOSE i \in 1..Len(index) : index[i] = d]
                  IN  FillNa([x \in cols |->
                                 IF x \in DOMAIN w THEN w[x] ELSE NaN])]]

\* The end of calculate_weights, lines 129-132.
CalculateWeightsEnd ==
    /\ pc = "weights"
    /\ Len(dates_list) = Len(rebalancing_dates)
    /\ weights' = WeightsFrame(weights_list, dates_list)
    /\ attrs' = attrs \cup {"weights"}
    /\ pc' = "performance"
    /\ UNCHANGED <<data, start_date, end_date, freq, window, aum,
                   transaction_cost, performance, total_transaction_costs,
                   call, exc, result, weightLocals, perfLocals, completed>>

(***************************************************************************)
(* Backtester.calculate_performance                                        *)
(***************************************************************************)
\* self.data[self.start_date:self.end_date].index
DfRows == RowsBetween(start_date, end_date)

\* df.dropna(axis=1, how='all').columns
DfColumns == {x \in Assets : \E t \in DfRows : ~IsNaN(data[t][x])}

\* Variant: df.bfill().ffill(), the first price at or after t, else the
\* last price before t.
FilledBackFirst(x, t) ==
    LET before == {u \in DfRows : u < t /\ ~IsNaN(data[u][x])}
        after == {u \in DfRows : u >= t /\ ~IsNaN(data[u][x])}
    IN  IF after # {} THEN data[MinOf(after)][x]
        ELSE IF before # {} THEN data[MaxOf(before)][x]
        ELSE NaN

\* df.ffill().bfill(): the last price at or before t, else the first
\* price after t.
Filled(x, t) ==
    LET before == {u \in DfRows : u <= t /\ ~IsNaN(data[u][x])}
        after == {u \in DfRows : u > t /\ ~IsNaN(data[u][x])}
    IN  IF before # {} THEN data[MaxOf(before)][x]
        ELSE IF after # {} THEN data[MinOf(after)][x]
        ELSE NaN

\* returns.index: df.pct_change()[1:] drops the first row of df.
ReturnsIndex == IF DfRows = {} THEN {} ELSE DfRows \ {MinOf(DfRows)}

\* Variant: returns measured against the first row instead of the previous.
ReturnsAtSinceStart(date) ==
    LET first == MinOf(DfRows)
    IN  [x \in DfColumns |->
            FSub(FDiv(Filled(x, date), Filled(x, first)), One)]

\* returns.loc[date]
ReturnsAt(date) ==
    LET prev == MaxOf({u \in DfRows : u < date})
    IN  [x \in DfColumns |->
            FSub(FDiv(Filled(x, date), Filled(x, prev)), One)]

\* DataFrame.first_valid_index(): the first row with a non-NaN cell; None
\* (here -1) when there is no row or no column.
NoDate == 0 - 1

FirstValidIndex(frame) ==
    IF Len(frame.index) = 0 \/ frame.columns = {} THEN NoDate
    ELSE frame.index[1]

\* (a * b).sum() of two Series: labels are aligned, a label one side lacks
\* gives NaN, and sum skips NaN.
DotProduct(a, b) ==
    SeriesSum([x \in (DOMAIN a) \cap (DOMAIN b) |-> FMul(a[x], b[x])])

\* Variant: the signed turnover, sum |dw| * balance * rate / 100.
TransactionCostsSigned(current_weights, prev, bal, rate) ==
    FMul(FMul(SeriesSum([x \in DOMAIN current_weights |->
                            FAbs(FSub(current_weights[x], prev[x]))]),
              bal),
         Norm(rate, 100))

\* Variant: the net change, |sum changes| * rate / 100.
TransactionCostsNet(current_weights, prev, bal, rate) ==
    LET changes == [x \in DOMAIN current_weights |->
                       FMul(FSub(current_weights[x], prev[x]), bal)]
    IN  FMul(FAbs(SeriesSum(changes)), Norm(rate, 100))

\* changes.abs().sum() * (self.transaction_cost / 100), lines 176-179.
TransactionCosts(current_weights, prev, bal, rate) ==
    LET changes == [x \in DOMAIN current_weights |->
                       FMul(FSub(current_weights[x], prev[x]), bal)]
    IN  FMul(SeriesSum([x \in DOMAIN changes |-> FAbs(changes[x])]),
             Norm(rate, 100))

\* Lines 142-168.
CalculatePerformanceBegin ==
    /\ pc = "performance"
    /\ UNCHANGED <<data, start_date, end_date, freq, window, aum,
                   transaction_cost, weights, performance, call,
                   weightLocals, event>>
    /\ balance' = F(aum)
    /\ total_transaction_costs' = Zero
    /\ attrs' = attrs \cup {"total_transaction_costs"}
    /\ previous_weights' = ConstSeries(weights.columns, Zero)
    /\ LET first_valid_date == FirstValidIndex(weights)
       IN  IF first_valid_date = NoDate
             THEN \* None - pd.DateOffset(days=1)
                  /\ Raised("TypeError")
                  /\ UNCHANGED <<portfolio_values, dates, date_range>>
             ELSE /\ portfolio_values' = <<F(aum)>>
                  /\ dates' = <<first_valid_date - 1>>
                  /\ date_range' =
                         Ascending({t \in ReturnsIndex : t >= first_valid_date})
                  /\ pc' = "simulate"
                  /\ UNCHANGED <<exc, result, completed>>

\* Variant: the return of the date compounded with the weights active
\* before the rebalance.
PerformanceStepCompoundsFirst ==
    /\ pc = "simulate"
    /\ date_range # <<>>
    /\ LET date == Head(date_range)
           rebalance == date \in Range(weights.index)
           current_weights == IF rebalance THEN weights.v[date]
                              ELSE previous_weights
           transaction_costs ==
               IF rebalance
                 THEN TransactionCosts(current_weights, previous_weights,
                                       balance, transaction_cost)
                 ELSE Zero
           after_costs == FSub(balance, transaction_costs)
           portfolio_return == DotProduct(previous_weights, ReturnsAt(date))
           new_balance == FMul(after_costs, FAdd(One, portfolio_return))
       IN  /\ total_transaction_costs' =
                  FAdd(total_transaction_costs, transaction_costs)
           /\ previous_weights' = current_weights
           /\ balance' = new_balance
           /\ portfolio_values' = Append(portfolio_values, new_balance)
           /\ dates' = Append(dates, date)
           /\ date_range' = Tail(date_range)
           /\ event' = [date |-> date, rebalance |-> rebalance,
                        balance_before |-> balance,
                        cost |-> transaction_costs,
                        weights |-> current_weights,
                        prev |-> previous_weights,
                        portfolio_return |-> portfolio_return]
    /\ UNCHANGED <<data, attrs, start_date, end_date, freq, window, aum,
                   transaction_cost, weights, performance, pc, call, exc,
                   result, weightLocals, completed>>

\* Variant: the active weights drift with the returns of the date.
PerformanceStepDrifts ==
    /\ pc = "simulate"
    /\ date_range # <<>>
    /\ LET date == Head(date_range)
           rebalance == date \in Range(weights.index)
           current_weights == IF rebalance THEN weights.v[date]
                              ELSE previous_weights
           transaction_costs ==
               IF rebalance
                 THEN TransactionCosts(current_weights, previous_weights,
                                       balance, transaction_cost)
                 ELSE Zero
           after_costs == FSub(balance, transaction_costs)
           portfolio_return == DotProduct(current_weights, ReturnsAt(date))
           new_balance == FMul(after_costs, FAdd(One, portfolio_return))
       IN  /\ total_transaction_costs' =
                  FAdd(total_transaction_costs, transaction_costs)
           /\ previous_weights' =
                  [x \in DOMAIN current_weights |->
                      IF x \in DfColumns
                        THEN FDiv(FMul(current_weights[x],
                                       FAdd(One, ReturnsAt(date)[x])),
                                  FAdd(One, portfolio_return))
                        ELSE current_weights[x]]
           /\ balance' = new_balance
           /\ portfolio_values' = Append(portfolio_values, new_balance)
           /\ dates' = Append(dates, date)
           /\ date_range' = Tail(date_range)
           /\ event' = [date |-> date, rebalance |-> rebalance,
                        balance_before |-> balance,
                        cost |-> transaction_costs,
                        weights |-> current_weights,
                        prev |-> previous_weights,
                        portfolio_return |-> portfolio_return]
    /\ UNCHANGED <<data, attrs, start_date, end_date, freq, window, aum,
                   transaction_cost, weights, performance, pc, call, exc,
                   result, weightLocals, completed>>

\* One iteration of the for loop, lines 170-198.
PerformanceStep ==
    /\ pc = "simulate"
    /\ date_range # <<>>
    /\ LET date == Head(date_range)
           rebalance == date \in Range(weights.index)
           current_weights == IF rebalance THEN weights.v[date]
                              ELSE previous_weights
           transaction_costs ==
               IF rebalance
                 THEN TransactionCosts(current_weights, previous_weights,
                                       balance, transaction_cost)
                 ELSE Zero
           after_costs == FSub(balance, transaction_costs)
           portfolio_return == DotProduct(current_weights, ReturnsAt(date))
           new_balance == FMul(after_costs, FAdd(One, portfolio_return))
       IN  /\ total_transaction_costs' =
                  FAdd(total_transaction_costs, transaction_costs)
           /\ previous_weights' = current_weights
           /\ balance' = new_balance
           /\ portfolio_values' = Append(portfolio_values, new_balance)
           /\ dates' = Append(dates, date)
           /\ date_range' = Tail(date_range)
           /\ event' = [date |-> date, rebalance |-> rebalance,
                        balance_before |-> balance,
                        cost |-> transaction_costs,
                        weights |-> current_weights,
                        prev |-> previous_weights,
                        portfolio_return |-> portfolio_return]
    /\ UNCHANGED <<data, attrs, start_date, end_date, freq, window, aum,
                   transaction_cost, weights, performance, pc, call, exc,
                   result, weightLocals, completed>>

\* Line 201, and the Result built on line 68 of run.
PerformanceDone ==
    /\ pc = "simulate"
    /\ date_range = <<>>
    /\ performance' = [i \in 1..Len(dates) |-> <<dates[i], portfolio_values[i]>>]
    /\ attrs' = attrs \cup {"performance"}
    /\ result' = [name |-> call.strategy,
                  performance |-> performance',
                  weights |-> weights,
                  total_transactions_cost |-> total_transaction_costs]
    /\ pc' = "done"
    /\ completed' = Append(completed, [call |-> call, exc |-> "",
                                        result |-> result'])
    /\ UNCHANGED <<data, start_date, end_date, freq, window, aum,
                   transaction_cost, weights, total_transaction_costs, call,
                   exc, weightLocals, perfLocals>>

Next ==
    \/ \E args \in Calls : Run(args)
    \/ ScheduleStep
    \/ ScheduleDone
    \/ WeightStep
    \/ CalculateWeightsEnd
    \/ CalculatePerformanceBegin
    \/ PerformanceStep
    \/ PerformanceDone

Spec == Init /\ [][Next]_vars

\* The statements of run between its loops over dates: once run is called
\* the interpreter keeps executing it until it returns or raises.
RunBody ==
    \/ ScheduleStep
    \/ ScheduleDone
    \/ CalculateWeightsEnd
    \/ CalculatePerformanceBegin
    \/ PerformanceDone

\* The control flow of the for loop of lines 108-126: the body runs for the
\* next rebalancing date, and either appends it to dates_list or leaves run
\* by an exception.  Every WeightStep is such a step.
WeightLoopAdvance ==
    /\ pc = "weights"
    /\ Len(dates_list) < Len(rebalancing_dates)
    /\ pc' \in {"weights", "raised"}
    /\ dates_list' =
          IF pc' = "raised" THEN dates_list
          ELSE Append(dates_list, rebalancing_dates[Len(dates_list) + 1])

\* The control flow of the for loop of lines 170-198: the body runs for the
\* next date of date_range.  Every PerformanceStep is such a step.
SimulationLoopAdvance ==
    /\ pc = "simulate"
    /\ date_range # <<>>
    /\ date_range' = Tail(date_range)

\* The tables in which asset a is priced from the first day on; asset b
\* is any series of the family.
LiveTables == {d \in PriceTables : ~IsNaN(d[0]["a"])}

InitLive ==
    /\ data \in LiveTables
    /\ InitRest

\* run executed by the interpreter: no statement is postponed forever.
SpecLive ==
    /\ InitLive
    /\ [][Next]_vars
    /\ WF_vars(RunBody)
    /\ WF_<<pc, dates_list>>(WeightLoopAdvance)
    /\ WF_date_range(SimulationLoopAdvance)

(***************************************************************************)
(* Strategy.get_position on its own: a caller passes a price frame without *)
(* NaN cells and a vector of previous weights.                             *)
(***************************************************************************)
PriceLevels == {1, 2}

\* The frames of n rows over the columns cols in which all assets start
\* at the same price level.
FramesOver(cols, n) ==
    {[index |-> [i \in 1..n |-> i], columns |-> cols, v |-> v] :
        v \in {w \in [1..n -> [cols -> {F(p) : p \in PriceLevels}]] :
                  n >= 1 => \A x, y \in cols : w[1][x] = w[1][y]}}

Frames == UNION {FramesOver(cols, n) : cols \in SUBSET Columns, n \in 0..MaxRows}

Positions == {ConstSeries(Columns, Zero), ConstSeries(Columns, Norm(1, 3))}

StrategyNames ==
    {"MinVarianceStrategy", "EqualWeightStrategy", "RandomStrategy",
     "ValueStrategy", "MomentumStrategy", "MinVolStrategy"}

\* The frames a strategy is called with: Equal Weight and Random read only
\* the columns of the frame, and get frames of at most one row.
FramesFor(strategy) ==
    IF strategy \in {"EqualWeightStrategy", "RandomStrategy"}
      THEN {h \in Frames : Len(h.index) <= 1}
      ELSE Frames

InitStrategy ==
    /\ data = ScenarioTable
    /\ InitRest

\* strategy.get_position(historical_data, current_position)
GetPositionCall ==
    /\ pc = "idle"
    /\ \E strategy \in StrategyNames, cur \in Positions :
         \E h \in FramesFor(strategy) :
         \E out \in GetPosition(strategy, h, cur) :
            gp' = [strategy |-> strategy, historical_data |-> h,
                   current_position |-> cur, exc |-> out.exc,
                   value |-> out.value]
    /\ pc' = "returned"
    /\ UNCHANGED <<data, selfVars, call, exc, result, prices_index,
                   rebalancing_dates, current_date, last_weights,
                   weights_list, dates_list, perfLocals, completed>>

NextStrategy == GetPositionCall

SpecStrategy == InitStrategy /\ [][NextStrategy]_vars

(***************************************************************************)
(* Repeated calls of run on one Backtester: after run has returned or      *)
(* raised, the caller calls it again with arguments of a small family.     *)
(***************************************************************************)
\* Tables in which every asset is priced on the first day.
RepeatTables == {d \in PriceTables : \A x \in Assets : ~IsNaN(d[0][x])}

RepeatCalls ==
    {c \in FullCalls :
        /\ c.start_date = 0
        /\ c.end_date = MaxDay
        /\ c.window = 2
        /\ c.transaction_cost = 50
        /\ \/ c.freq = 1
           \/ c.freq = MaxFreq /\ c.strategy = "EqualWeightStrategy"}

InitRepeat ==
    /\ data \in RepeatTables
    /\ InitRest

\* run has returned its Result (line 68) or raised: control is back in the
\* caller, which holds the same Backtester.
ReturnToCaller ==
    /\ pc \in {"done", "raised"}
    /\ pc' = "idle"
    /\ UNCHANGED <<data, selfVars, call, exc, result, weightLocals,
                   perfLocals, completed>>

NextRepeat ==
    \/ \E args \in RepeatCalls : Run(args)
    \/ ScheduleStep
    \/ ScheduleDone
    \/ WeightStep
    \/ CalculateWeightsEnd
    \/ CalculatePerformanceBegin
    \/ PerformanceStep
    \/ PerformanceDone
    \/ ReturnToCaller

SpecRepeat == InitRepeat /\ [][NextRepeat]_vars

(***************************************************************************)
(* Properties.                                                             *)
(***************************************************************************)
ZeroWeights == ConstSeries(Assets, Zero)

\* A training window that gives a Strategy too little to work with: no
\* surviving asset, or fewer than 2 return observations.
InsufficientData(h) == h.columns = {} \/ LenReturns(h) < 2

\* run was called with a strategy and both dates, so the simulation started.
Simulating == call.strategy # "None" /\ call.start_given /\ call.end_given

\* C1: once the simulation has started, no rebalance date whose training
\* window has too few observations or no surviving asset makes run raise.
C1_NoAbortAtRebalance ==
    ~(/\ Simulating
      /\ pc = "raised"
      /\ gp.exc # ""
      /\ exc = gp.exc
      /\ InsufficientData(gp.historical_data))

\* C2: when an optimization strategy soft-fails at a rebalance date,
\* get_position returns the previous weights unchanged, and the row recorded
\* for that date equals the previously recorded row (all zero if it is the
\* first).
C2_CarryForward ==
    /\ (gp.strategy \in OptimizationStrategies
            /\ InsufficientData(gp.historical_data))
         => (gp.exc = "" /\ gp.value = gp.current_position)
    /\ (call.strategy \in OptimizationStrategies /\ pc # "schedule")
         => \A i \in 1..Len(weights_list) :
                InsufficientData(TrainingWindow(dates_list[i]))
                  => weights_list[i] =
                         IF i = 1 THEN ZeroWeights ELSE weights_list[i - 1]
    /\ (call.strategy \in OptimizationStrategies /\ "weights" \in attrs
            /\ pc \in {"performance", "simulate", "done", "raised"})
         => \A i \in 1..Len(weights.index) :
                InsufficientData(TrainingWindow(weights.index[i]))
                  => weights.v[weights.index[i]] =
                         IF i = 1 THEN ConstSeries(weights.columns, Zero)
                         ELSE weights.v[weights.index[i - 1]]

C2_Witness ==
    /\ pc = "done"
    /\ call.strategy \in OptimizationStrategies
    /\ Len(weights.index) >= 2
    /\ gp.historical_data.columns # {}
    /\ LenReturns(gp.historical_data) = 1
    /\ gp.value = gp.current_position

\* C3: for every strategy, get_position on a training window without any
\* surviving asset does not raise and returns the previous weights.
C3_EmptyWindowKeepsPrevious ==
    (gp.strategy # "None" /\ gp.historical_data.columns = {})
      => (gp.exc = "" /\ gp.value = gp.current_position)

\* C4: when no rebalance date satisfies the window constraint, or the price
\* slice is empty, run completes with an empty Weight History, a flat
\* Performance Series at the initial AUM and a total cost of 0.
C4_EmptyScheduleCompletes ==
    (Simulating /\ pc \in {"raised", "done"} /\ rebalancing_dates = <<>>)
      => /\ pc = "done"
         /\ weights.index = <<>>
         /\ \A i \in 1..Len(performance) : performance[i][2] = F(aum)
         /\ total_transaction_costs = Zero

\* C5: run called with only a strategy completes, over the full date range
\* of the data and with the default freq, window, aum and transaction cost.
C5_DefaultsUsable ==
    (call.strategy # "None" /\ ~call.start_given /\ ~call.end_given)
      => /\ pc # "raised"
         /\ pc = "done" =>
              /\ start_date = MinOf(DOMAIN data)
              /\ end_date = MaxOf(DOMAIN data)
              /\ freq = DefaultFreq
              /\ window = DefaultWindow
              /\ aum = DefaultAum
              /\ transaction_cost = DefaultTransactionCost

\* C6: a call of run without a strategy raises ValueError and neither
\* creates nor changes any run state of the Backtester: no schedule is
\* built and no Strategy is invoked.
C6_RejectedWithoutStrategy ==
    [][call'.strategy = "None"
         => /\ pc' = "raised"
            /\ exc' = "ValueError"
            /\ UNCHANGED <<data, selfVars, weightLocals, perfLocals>>]_vars

C6_Witness ==
    /\ pc = "raised"
    /\ exc = "ValueError"
    /\ "performance" \in attrs
    /\ Len(weights.index) >= 1

\* C7: during a run the cost accumulator starts at 0, never decreases from
\* one simulated date to the next, and changes only on a date that is in
\* the Weight History.
C7_CostMonotone ==
    [][pc' = "simulate"
         => /\ pc = "performance" => total_transaction_costs' = Zero
            /\ pc = "simulate" =>
                 /\ FLe(total_transaction_costs, total_transaction_costs')
                 /\ total_transaction_costs' # total_transaction_costs
                      => event'.date \in Range(weights.index)]_vars

C7_Witness ==
    /\ pc = "simulate"
    /\ FLt(Zero, total_transaction_costs)
    /\ ~event.rebalance
    /\ FLt(event.balance_before, Zero)

\* The weights adopted at the last rebalance event before date, all zero
\* when there was none.
PrevAdopted(date) ==
    LET earlier == {d \in Range(weights.index) \cap Range(dates) : d < date}
    IN  IF earlier = {} THEN ConstSeries(weights.columns, Zero)
        ELSE weights.v[MaxOf(earlier)]

\* sum_i |new_w_i - prev_w_i| of a rebalance event
SumAbsChange(e) ==
    SumOver([x \in DOMAIN e.weights |-> FAbs(FSub(e.weights[x], e.prev[x]))],
            DOMAIN e.weights)

\* The spec's scenario: 2 assets, AUM 100, rate 1%, (0, 0) -> (0.5, 0.5)
\* charges 1.0 and leaves 99.0 to compound.
CostScenario ==
    (/\ transaction_cost = 1
     /\ event.balance_before = F(100)
     /\ event.prev = ZeroWeights
     /\ event.weights = ConstSeries(Assets, Norm(1, 2)))
      => /\ event.cost = One
         /\ balance = FMul(F(99), FAdd(One, event.portfolio_return))

\* C8 as stated: the cost of a rebalance event is
\* sum_i |new_w_i - prev_w_i| x balance x transaction_cost / 100.
C8_CostAsStated ==
    event.rebalance
      => /\ event.cost =
              FMul(FMul(SumAbsChange(event), event.balance_before),
                   Norm(transaction_cost, 100))
         /\ event.prev = PrevAdopted(event.date)
         /\ CostScenario

\* C8, amended: the cost of a rebalance event is
\* sum_i |(new_w_i - prev_w_i) x balance| x transaction_cost / 100, that is
\* sum_i |new_w_i - prev_w_i| x |balance| x transaction_cost / 100, with prev
\* the vector adopted at the previous event, all zero at the first.
C8_CostCharged ==
    event.rebalance
      => /\ event.cost =
              FMul(FMul(SumAbsChange(event), FAbs(event.balance_before)),
                   Norm(transaction_cost, 100))
         /\ event.prev = PrevAdopted(event.date)
         /\ CostScenario

C8_Witness ==
    /\ event.rebalance
    /\ transaction_cost = 1
    /\ event.balance_before = F(100)
    /\ event.weights = ConstSeries(Assets, Norm(1, 2))
    /\ event.cost = One

\* The simple return of asset x on the i-th recorded date, 0 for an asset
\* without any price in [start_date, end_date].
SimpleReturn(x, date) ==
    IF x \notin DfColumns THEN Zero
    ELSE LET prev == MaxOf({u \in DfRows : u < date})
         IN  FDiv(FSub(Filled(x, date), Filled(x, prev)), Filled(x, prev))

\* The weights active on the i-th recorded date: the row of the latest
\* rebalance event so far, all zero before the first.
ActiveWeights(i) ==
    LET adopted == {d \in Range(weights.index) :
                        \E j \in 2..i : dates[j] = d}
    IN  IF adopted = {} THEN ConstSeries(weights.columns, Zero)
        ELSE weights.v[MaxOf(adopted)]

PeriodReturn(i) ==
    SumOver([x \in weights.columns |->
                FMul(ActiveWeights(i)[x], SimpleReturn(x, dates[i]))],
            weights.columns)

CompoundingCall ==
    [strategy |-> "EqualWeightStrategy", start_given |-> TRUE,
     start_date |-> 0, end_given |-> TRUE, end_date |-> 3, freq |-> 1,
     window |-> 1, aum |-> DefaultAum, transaction_cost |-> 0]

\* C9: with zero transaction cost every recorded balance is the previous
\* one times (1 + sum_i w_i r_i) for the active weights w and the simple
\* returns r of that date; one asset at weight 1 with returns 0.1, -0.05,
\* 0.02 and AUM 100 gives 100, 110, 104.5, 106.59.
C9_Compounding ==
    /\ (pc \in {"simulate", "done"} /\ transaction_cost = 0)
         => \A i \in 2..Len(portfolio_values) :
                portfolio_values[i] =
                    FMul(portfolio_values[i - 1], FAdd(One, PeriodReturn(i)))
    /\ (pc = "done" /\ data = ScenarioTable /\ call = CompoundingCall)
         => performance = << <<0, F(100)>>, <<1, F(110)>>,
                             <<2, Norm(209, 2)>>, <<3, Norm(10659, 100)>> >>

C9_Witness ==
    /\ pc = "done"
    /\ data = ScenarioTable
    /\ call = CompoundingCall
    /\ Len(performance) = 4

\* The last get_position call was made on a rank strategy and returned.
RankedCall == gp.strategy = "ValueStrategy" /\ gp.exc = ""

\* Number of assets of the ranked universe of the last call.
RankedSize == Cardinality(gp.historical_data.columns)

\* sum_i |w_i| of a weight vector.
SumAbs(w) == SumOver([x \in DOMAIN w |-> FAbs(w[x])], DOMAIN w)

\* C11: for every size N >= 1 of the ranked universe, the weights a rank
\* strategy returns, and the row the Weight History records for them,
\* satisfy sum_i |w_i| = 1.
C11_AbsoluteWeightsSumToOne ==
    /\ (RankedCall /\ RankedSize >= 1) => SumAbs(gp.value) = One
    /\ (call.strategy = "ValueStrategy" /\ "weights" \in attrs
            /\ pc \in {"performance", "simulate", "done"})
         => \A d \in Range(weights.index) :
                TrainingWindow(d).columns # {} => SumAbs(weights.v[d]) = One

C13_RepeatedRunsAgree ==
    \A i, j \in 1..Len(completed) :
        completed[i].call = completed[j].call => completed[i] = completed[j]

C13_Witness ==
    /\ Len(completed) = 3
    /\ completed[1].call = completed[3].call
    /\ completed[2].call # completed[1].call
    /\ completed[2].call.strategy = "EqualWeightStrategy"
    /\ completed[1].call.strategy = "MinVarianceStrategy"
    /\ \A i \in 1..3 : completed[i].exc = ""
    /\ Len(completed[3].result.weights.index) >= 2
    /\ completed[2].result.total_transactions_cost # Zero

\* The dates of the Performance Series, in the order recorded.
PerformanceDates == [i \in 1..Len(performance) |-> performance[i][1]]

\* C14: the Performance Series is the anchor entry (the day before the first
\* Weight History date, the initial AUM) followed by exactly one entry for
\* every price date from the first rebalance date through the end date, in
\* strictly ascending date order.
C14_PerformanceShape ==
    (pc = "done" /\ call.strategy # "None")
      => LET first == weights.index[1]
         IN  /\ Len(performance) >= 1
             /\ performance[1] = <<first - 1, F(aum)>>
             /\ PerformanceDates =
                    <<first - 1>>
                      \o Ascending({t \in RowsBetween(start_date, end_date) :
                                       t >= first})

\* calculate_weights has returned in the current call of run.
WeightsComputed == pc \in {"performance", "simulate", "done"}

StrictlyAscending(seq) == \A i \in 1..(Len(seq) - 1) : seq[i] < seq[i + 1]

\* C15: after calculate_weights the Weight History has exactly one row per
\* scheduled rebalance date, in ascending order, also for the dates where
\* no asset survived filtering; every asset of any recorded vector has a
\* numeric weight on every row, 0 where the row's vector did not have it.
C15_WeightHistoryDense ==
    WeightsComputed
      => /\ weights.index = rebalancing_dates
         /\ StrictlyAscending(weights.index)
         /\ weights.columns =
                UNION {DOMAIN weights_list[i] : i \in 1..Len(weights_list)}
         /\ \A i \in 1..Len(weights.index) :
                LET row == weights.v[weights.index[i]]
                    vector == weights_list[i]
                IN  /\ DOMAIN row = weights.columns
                    /\ \A x \in weights.columns :
                          /\ ~IsNaN(row[x])
                          /\ x \notin DOMAIN vector => row[x] = Zero
                          /\ (x \in DOMAIN vector /\ ~IsNaN(vector[x]))
                               => row[x] = vector[x]

C15_Witness ==
    /\ pc = "done"
    /\ Len(weights.index) >= 2
    /\ TrainingWindow(weights.index[1]).columns = {}
    /\ DOMAIN weights_list[1] # weights.columns
    /\ \E x \in weights.columns : weights.v[weights.index[2]][x] # Zero

\* C16: the rebalance schedule is the set of the dates L - k * freq with
\* k >= 0 and L - k * freq - window >= F, ascending, for the last date L and
\* the first date F of the prices in [start - window, end]; consecutive
\* dates differ by freq, the last one is L, and each d has d - window >= F.
C16_Schedule ==
    pc \in {"weights", "performance", "simulate", "done"}
      => LET P == RowsBetween(start_date - window, end_date)
             last == MaxOf(P)
             first == MinOf(P)
         IN  /\ rebalancing_dates =
                    Ascending({d \in {last - k * freq : k \in 0..MaxDay} :
                                  d - window >= first})
             /\ \A i \in 1..(Len(rebalancing_dates) - 1) :
                    rebalancing_dates[i + 1] - rebalancing_dates[i] = freq
             /\ rebalancing_dates # <<>>
                  => rebalancing_dates[Len(rebalancing_dates)] = last
             /\ \A i \in 1..Len(rebalancing_dates) :
                    rebalancing_dates[i] - window >= first

C16_Witness ==
    /\ pc = "done"
    /\ Len(rebalancing_dates) >= 2
    /\ rebalancing_dates[1] - window = prices_index[1]
    /\ rebalancing_dates[1] - freq >= prices_index[1]

\* sum_i w_i * r_i(date) for a weight vector w and the simple returns of date
ReturnWith(w, date) ==
    SumOver([x \in DOMAIN w |-> FMul(w[x], SimpleReturn(x, date))], DOMAIN w)

\* C17: on a rebalance date the cost is charged and the new weights are
\* adopted before compounding: the recorded balance is
\* (balance_before - cost) x (1 + new_weights . returns(date)).
C17_ChargeAdoptCompound ==
    event.rebalance
      => /\ event.weights = weights.v[event.date]
         /\ previous_weights = event.weights
         /\ balance =
                FMul(FSub(event.balance_before, event.cost),
                     FAdd(One, ReturnWith(weights.v[event.date], event.date)))
         /\ portfolio_values[Len(portfolio_values)] = balance
         /\ dates[Len(dates)] = event.date

C17_Witness ==
    /\ event.rebalance
    /\ event.cost # Zero
    /\ event.prev # ConstSeries(weights.columns, Zero)
    /\ event.prev # event.weights
    /\ ReturnWith(event.prev, event.date)
          # ReturnWith(event.weights, event.date)

\* C18: on a simulated date that is not in the Weight History the active
\* weights and the cost accumulator stay as they are; only the balance
\* changes, multiplied by 1 + active_weights . returns(date).
C18_NoDriftBetweenRebalances ==
    [][(/\ pc = "simulate"
        /\ date_range # <<>>
        /\ Head(date_range) \notin Range(weights.index)
        /\ dates' # dates)
         => /\ previous_weights' = previous_weights
            /\ total_transaction_costs' = total_transaction_costs
            /\ balance' =
                   FMul(balance,
                        FAdd(One, ReturnWith(previous_weights,
                                             Head(date_range))))
            /\ portfolio_values' = Append(portfolio_values, balance')
            /\ dates' = Append(dates, Head(date_range))
            /\ UNCHANGED <<data, attrs, start_date, end_date, freq, window,
                           aum, transaction_cost, weights, performance,
                           weightLocals>>]_vars

C18_Witness ==
    /\ pc = "simulate"
    /\ event.date >= 0
    /\ ~event.rebalance
    /\ total_transaction_costs # Zero
    /\ balance # event.balance_before
    /\ \E x \in DOMAIN previous_weights :
          /\ previous_weights[x] # Zero
          /\ SimpleReturn(x, event.date) # Zero

\* C19: the rebalance dates are processed in ascending order and each call
\* of the Strategy is given exactly the vector the previous call returned,
\* the all-zero vector over all assets at the first.
C19_LastWeightsThreaded ==
    [][(/\ pc = "weights"
        /\ Len(dates_list) < Len(rebalancing_dates)
        /\ (pc' = "raised" \/ dates_list' # dates_list))
         => /\ current_date' = rebalancing_dates[Len(dates_list) + 1]
            /\ dates_list # <<>>
                 => dates_list[Len(dates_list)] < current_date'
            /\ gp'.current_position =
                   IF weights_list = <<>> THEN ZeroWeights
                   ELSE weights_list[Len(weights_list)]
            /\ weights_list # <<>> => gp'.current_position = gp.value
            /\ pc' # "raised"
                 => /\ dates_list' = Append(dates_list, current_date')
                    /\ weights_list' = Append(weights_list, gp'.value)]_vars

C19_Witness ==
    /\ Len(weights_list) = 3
    /\ weights_list[1] # ZeroWeights
    /\ weights_list[2] # weights_list[1]
    /\ weights_list[3] # weights_list[2]
    /\ gp.current_position = weights_list[2]
    /\ gp.value = weights_list[3]

\* C20: at a rebalance date d the Strategy receives exactly the price rows
\* dated in [d - window, d - 1]; no row dated d or later is part of the
\* training slice.
C20_NoLookAhead ==
    gp.strategy # "None"
      => LET h == gp.historical_data
             rows == {t \in DOMAIN data :
                         /\ start_date - window <= t /\ t <= end_date
                         /\ current_date - window <= t
                         /\ t <= current_date - 1}
         IN  /\ h.index = Ascending(rows)
             /\ \A t \in Range(h.index) :
                    /\ t < current_date
                    /\ \A x \in h.columns : h.v[t][x] = data[t][x]

C20_Witness ==
    /\ gp.strategy # "None"
    /\ Len(gp.historical_data.index) >= 2
    /\ gp.historical_data.columns = Assets
    /\ current_date < end_date
    /\ \E x \in Assets :
          /\ ~IsNaN(data[current_date][x])
          /\ data[current_date][x] # data[current_date - 1][x]

\* The assets with a price on every price date of [d - window, d - 1].
CompleteAssets(d) ==
    {x \in Assets :
        \A t \in DOMAIN data :
            (/\ start_date - window <= t /\ t <= end_date
             /\ d - window <= t /\ t <= d - 1) => ~IsNaN(data[t][x])}

\* C21: an asset is left out of the slice passed to the Strategy at a
\* rebalance date d if and only if it has a missing price inside d's
\* training window; an asset left out at one date is passed again at a
\* later date whose window is complete for it.
C21_FilteredPerRebalance ==
    /\ gp.strategy # "None"
         => gp.historical_data.columns = CompleteAssets(current_date)
    /\ call.strategy \in {"EqualWeightStrategy", "ValueStrategy"}
         => \A i \in 1..Len(dates_list) :
                DOMAIN weights_list[i] = CompleteAssets(dates_list[i])

C21_Witness ==
    /\ pc = "done"
    /\ call.strategy = "EqualWeightStrategy"
    /\ Len(dates_list) >= 2
    /\ DOMAIN weights_list[1] # Assets
    /\ gp.historical_data.columns = Assets

RankStrategies == {"ValueStrategy", "MomentumStrategy", "MinVolStrategy"}

\* The rankings rank_assets can return for the frame h.
Rankings(strategy, h) ==
    CASE strategy = "ValueStrategy" -> {ValueRankAssets(h)}
      [] strategy = "MinVolStrategy" -> {MinVolRankAssets(h)}
      [] strategy = "MomentumStrategy" -> MomentumRankAssets(h)

\* A ranking of at least 2 assets, each with a rank.
RanksAtLeastTwo(ranks) ==
    /\ Cardinality(DOMAIN ranks) >= 2
    /\ \A x \in DOMAIN ranks : ~IsNaN(ranks[x])

\* The last call was made on a rank strategy and returned.
RankedReturn == gp.strategy \in RankStrategies /\ gp.exc = ""

\* C23: for a ranking of N >= 2 assets the weights returned are
\* (rank_i - avg) / sum_j |rank_j - avg| with avg the mean rank; they sum to
\* zero, increase strictly with the rank, are positive exactly above the
\* average rank and negative exactly below it, and do not depend on the
\* previous weights.
C23_RankToWeight ==
    RankedReturn
      => \A ranks \in Rankings(gp.strategy, gp.historical_data) :
           (RanksAtLeastTwo(ranks) /\ DOMAIN ranks = DOMAIN gp.value)
             => LET D == DOMAIN ranks
                    avg == FDiv(SumOver(ranks, D), F(Cardinality(D)))
                    dev == [x \in D |-> FSub(ranks[x], avg)]
                    total == SumOver([x \in D |-> FAbs(dev[x])], D)
                    w == gp.value
                IN  /\ \A x \in D : w[x] = FDiv(dev[x], total)
                    /\ SumOver(w, D) = Zero
                    /\ \A x, y \in D :
                          FLt(ranks[x], ranks[y]) => FLt(w[x], w[y])
                    /\ \A x \in D :
                          /\ FLt(Zero, w[x]) <=> FLt(avg, ranks[x])
                          /\ FLt(w[x], Zero) <=> FLt(ranks[x], avg)
                    /\ \A cur \in Positions \ {gp.current_position} :
                          \E out \in GetPosition(gp.strategy,
                                                  gp.historical_data, cur) :
                              out.exc = "" /\ out.value = w

C23_Witness ==
    /\ RankedReturn
    /\ gp.strategy = "MinVolStrategy"
    /\ gp.historical_data.columns = Columns
    /\ gp.current_position # ConstSeries(Columns, Zero)
    /\ gp.value["a"] = Norm(1, 2)
    /\ gp.value["b"] = Zero
    /\ gp.value["c"] = Norm(0 - 1, 2)

\* The last call was made on a ValueStrategy and returned.
ValueReturn == gp.strategy = "ValueStrategy" /\ gp.exc = ""

\* Asset x has a lower last/first price ratio than asset y in the frame h
\* (prices are positive: the ratios are compared by cross-multiplication).
RatioLower(h, x, y) ==
    LET first == h.v[h.index[1]]
        last == h.v[h.index[Len(h.index)]]
    IN  FLt(FMul(last[x], first[y]), FMul(last[y], first[x]))

RatioEqual(h, x, y) == ~RatioLower(h, x, y) /\ ~RatioLower(h, y, x)

\* C24: ValueStrategy.rank_assets ranks by the ratio last price / first
\* price of the window: a lower ratio gets a higher rank and a larger
\* weight; the ranks are a permutation of 1..N; assets with equal ratios
\* get distinct consecutive ranks in column order.
C24_ValueRanking ==
    ValueReturn
      => LET h == gp.historical_data
             ranks == ValueRankAssets(h)
             N == Cardinality(h.columns)
         IN  /\ DOMAIN ranks = h.columns
             /\ {ranks[x] : x \in h.columns} = {F(i) : i \in 1..N}
             /\ \A x, y \in h.columns :
                   RatioLower(h, x, y)
                     => /\ FLt(ranks[y], ranks[x])
                        /\ FLt(gp.value[y], gp.value[x])
             /\ \A x, y \in h.columns :
                   (RatioEqual(h, x, y) /\ ColPos(x) < ColPos(y))
                     => /\ FLt(ranks[x], ranks[y])
                        /\ \A z \in h.columns :
                              (FLt(ranks[x], ranks[z]) /\ FLt(ranks[z], ranks[y]))
                                => RatioEqual(h, x, z)

C24_Witness ==
    /\ ValueReturn
    /\ gp.historical_data.columns = Columns
    /\ RatioEqual(gp.historical_data, "a", "b")
    /\ RatioLower(gp.historical_data, "c", "a")
    /\ gp.value["a"] = Norm(0 - 1, 2)
    /\ gp.value["b"] = Zero
    /\ gp.value["c"] = Norm(1, 2)

\* The last call was made on a MinVolStrategy and returned.
MinVolReturn == gp.strategy = "MinVolStrategy" /\ gp.exc = ""

\* The ranking properties of C25 for the frame h and the weights w.
MinVolRanked(h, w) ==
    LET ranks == MinVolRankAssets(h)
        N == Cardinality(h.columns)
    IN  /\ DOMAIN ranks = h.columns
        /\ {ranks[x] : x \in h.columns} = {F(i) : i \in 1..N}
        /\ \A x, y \in h.columns :
              FLt(Variance(h, x), Variance(h, y))
                => /\ FLt(ranks[y], ranks[x])
                   /\ FLt(w[y], w[x])
        /\ \A x, y \in h.columns :
              (Variance(h, x) = Variance(h, y) /\ ColPos(x) < ColPos(y))
                => FLt(ranks[x], ranks[y])

\* C25: MinVolStrategy.rank_assets ranks by the standard deviation of the
\* simple returns of the window, descending: the most volatile asset gets
\* rank 1, the least volatile the highest rank and the largest weight;
\* every asset of the window receives a rank (the ranks are 1..N), ties
\* broken in column order.
C25_MinVolRanking ==
    MinVolReturn => MinVolRanked(gp.historical_data, gp.value)

\* The last call was made on a MomentumStrategy and returned.
MomentumReturn == gp.strategy = "MomentumStrategy" /\ gp.exc = ""

\* The compounded return of asset x over the return observations lo..hi.
CompoundedReturn(h, x, lo, hi) == FSub(Compound(h, x, lo, hi), One)

\* Every ranking of h, and the weights w, order the assets by their
\* compounded return over the return observations lo..hi, ascending.
MomentumOrderedBy(h, w, lo, hi) ==
    \A ranks \in MomentumRankAssets(h) :
        DOMAIN ranks = DOMAIN w
          => \A x, y \in DOMAIN ranks :
                FLt(CompoundedReturn(h, x, lo, hi), CompoundedReturn(h, y, lo, hi))
                  => /\ FLt(ranks[x], ranks[y])
                     /\ FLt(w[x], w[y])

\* C26: for a window of L return observations and delta = ceil(L/12),
\* MomentumStrategy.rank_assets ranks the assets, ascending, by their
\* compounded return over the L - delta consecutive observations that end
\* delta observations before the end of the window (the most recent
\* sub-period is left out): the best such return gets the highest rank and
\* the largest weight.
C26_MomentumSkipsRecent ==
    MomentumReturn
      => LET h == gp.historical_data
             L == LenReturns(h)
             delta == (L + 11) \div 12
         IN  MomentumOrderedBy(h, gp.value, 1, L - delta)

NonOptimized == {"EqualWeightStrategy", "RandomStrategy"}

\* The vector w is over exactly the columns of h, non-negative, of sum 1.
LongOnlyOver(h, w) ==
    /\ DOMAIN w = h.columns
    /\ \A x \in h.columns : FLe(Zero, w[x])
    /\ SumOver(w, h.columns) = One

\* Every stored weight of an asset outside the training frame of its date
\* is 0.
FilteredOutRecordedZero ==
    \A i \in 1..Len(weights.index) :
        LET d == weights.index[i]
        IN  \A x \in weights.columns \ TrainingWindow(d).columns :
                weights.v[d][x] = Zero

\* C27: Equal Weight and Random return a vector over exactly the assets of
\* the filtered training frame, with non-negative weights of sum 1, whatever
\* the previous weights; Equal Weight gives each of the N assets 1/N, and an
\* asset filtered out at a rebalance is recorded with weight 0.
C27_NonOptimizedWeights ==
    /\ gp.strategy \in NonOptimized
         => /\ gp.exc = ""
            /\ LongOnlyOver(gp.historical_data, gp.value)
            /\ gp.strategy = "EqualWeightStrategy"
                 => \A x \in DOMAIN gp.value :
                       gp.value[x] =
                         Norm(1, Cardinality(gp.historical_data.columns))
            /\ \A cur \in Positions :
                  \E out \in GetPosition(gp.strategy, gp.historical_data, cur) :
                      out.exc = gp.exc /\ out.value = gp.value
    /\ (call # NoCall /\ call.strategy \in NonOptimized)
         => FilteredOutRecordedZero

\* calculate_performance has built its price table and returns.
ReturnsBuilt == pc \in {"simulate", "done"}

\* Asset x has no price on day t.
Missing(x, t) == IsNaN(data[t][x])

\* The days of [start, end] before / after t on which x has a price.
PricedBefore(x, t) ==
    {u \in Days : start_date <= u /\ u < t /\ ~Missing(x, u)}

PricedAfter(x, t) ==
    {u \in Days : t < u /\ u <= end_date /\ ~Missing(x, u)}

\* C28: the price table the returns are computed from has no missing
\* value: the assets without any price in [start, end] are dropped, every
\* gap holds the asset's most recent earlier price, a leading gap its first
\* later price; a missing price gives the asset a zero return on that day
\* and is never a zero price.
C28_PriceTableFilled ==
    ReturnsBuilt
      => /\ \A x \in Assets :
               x \in DfColumns
                 <=> \E t \in Days :
                       start_date <= t /\ t <= end_date /\ ~Missing(x, t)
         /\ \A x \in DfColumns, t \in DfRows :
               /\ ~IsNaN(Filled(x, t))
               /\ Filled(x, t) # Zero
               /\ ~Missing(x, t) => Filled(x, t) = data[t][x]
               /\ (Missing(x, t) /\ PricedBefore(x, t) # {})
                    => Filled(x, t) = data[MaxOf(PricedBefore(x, t))][x]
               /\ (Missing(x, t) /\ PricedBefore(x, t) = {})
                    => Filled(x, t) = data[MinOf(PricedAfter(x, t))][x]
               /\ (Missing(x, t) /\ t \in ReturnsIndex)
                    => ReturnsAt(t)[x] = Zero

\* A completed run whose range holds a leading gap of asset a and a gap of
\* asset b on a simulated day after a change of b's price.
C28_Witness ==
    /\ pc = "done"
    /\ DfColumns = Assets
    /\ Missing("a", MinOf(DfRows))
    /\ \E t \in Range(dates) \cap ReturnsIndex :
          /\ Missing("b", t)
          /\ PricedBefore("b", t) # {}
          /\ PricedAfter("b", t) # {}
          /\ data[MaxOf(PricedBefore("b", t))]["b"]
                # data[MinOf(PricedAfter("b", t))]["b"]

\* The dates the simulator has processed: dates without the anchor.
SimulatedDates == {dates[j] : j \in 2..Len(dates)}

\* The Weight-History dates at or before day t.
RecordedUpTo(t) == {d \in Range(weights.index) : d <= t}

\* C29: every Weight-History entry takes effect: the simulator performs a
\* rebalance event on every date of the Weight History, the first included,
\* and on every simulated date the active weights are the vector recorded
\* at the latest Weight-History date at or before it.
C29_EveryEntryTakesEffect ==
    /\ pc = "done" => Range(weights.index) \subseteq SimulatedDates
    /\ (pc \in {"simulate", "done"} /\ Len(dates) >= 2)
         => /\ RecordedUpTo(event.date) # {}
            /\ event.weights = weights.v[MaxOf(RecordedUpTo(event.date))]

\* run has been called and has neither returned nor raised yet.
Running == pc \in {"schedule", "weights", "performance", "simulate"}

\* floor((L - F - window) / freq) + 1 for the price range of the call, L its
\* last and F its first date.
ScheduleBound ==
    LET last == prices_index[Len(prices_index)]
        first == prices_index[1]
    IN  ((last - first - window) \div freq) + 1

\* The number of iterations the schedule loop has made.
ScheduleIterations == Len(rebalancing_dates)

\* The weight loop is at some point of its single pass over the schedule,
\* the simulation loop of its single pass over the dates of the returns.
OnePass ==
    /\ pc = "weights"
         => /\ Len(dates_list) <= Len(rebalancing_dates)
            /\ dates_list = SubSeq(rebalancing_dates, 1, Len(dates_list))
    /\ pc = "simulate"
         => Tail(dates) \o date_range
              = Ascending({t \in ReturnsIndex : t >= FirstValidIndex(weights)})

\* C30 as stated: for freq >= 1 and window >= 0 the schedule loop makes at
\* most floor((L - F - window) / freq) + 1 iterations, the weight loop and
\* the simulation loop make one pass over their finite lists, and every
\* call of run returns or raises.
C30_TerminationAsStated ==
    /\ [](pc \in {"schedule", "weights"}
            => ScheduleIterations <= ScheduleBound)
    /\ []OnePass
    /\ Running ~> (pc \in {"done", "raised"})

\* C30, amended: the schedule loop makes at most
\* max(0, floor((L - F - window) / freq) + 1) iterations, none when the
\* range is shorter than the window; the weight loop and the simulation
\* loop make one pass over their finite lists, and every call of run
\* returns or raises.
C30_Termination ==
    /\ [](pc \in {"schedule", "weights"}
            => ScheduleIterations
                 <= IF ScheduleBound < 0 THEN 0 ELSE ScheduleBound)
    /\ []OnePass
    /\ Running ~> (pc \in {"done", "raised"})

\* A run that returned after a schedule loop of as many iterations as the
\* bound allows, with an interval of more than one day, and a simulation of
\* several dates.
C30_Witness ==
    /\ pc = "done"
    /\ freq > 1
    /\ ScheduleIterations >= 2
    /\ ScheduleIterations = ScheduleBound
    /\ Len(dates) >= 3

====
